---- MODULE Spec2Model ----
(***************************************************************************)
(* A model of the AI Code Reviewer backend (src/main.py): the POST         *)
(* /analyze handler with its prompt builder, remote call with heuristic    *)
(* fallback, result parser, formatter and file rendering.                  *)
(*                                                                         *)
(* Text is a sequence of tokens.  A token is one character (the quote, the *)
(* slash, the zero, the space, the line feed, a letter) or an opaque run   *)
(* of characters that holds no quote, no line feed, no slash and no zero,  *)
(* so that splitting on the triple quote, splitting into lines and the     *)
(* zero-division scan act on it exactly as on the characters.              *)
(***************************************************************************)
EXTENDS Integers, Sequences, FiniteSets, TLC

VARIABLES
    PDF_AVAILABLE,  \* the module-level flag set at import time
    req,            \* req[r]: the CodeRequest of request r
    pc,             \* pc[r]: where request r is in its handler
    server,         \* server[r]: what the model server did for request r
    prompt,         \* prompt[r]
    raw_response,   \* raw_response[r]: what call_llm returned
    parsed,         \* parsed[r]
    formatted,      \* formatted[r]
    response,       \* response[r]: what the handler returned (or raised)
    body,           \* body[r]: the file body delivered to the caller
    fs,             \* the temporary directory: path -> file content
    running,        \* the request whose handler holds the event loop (0: none)
    calls           \* calls[r]: remote calls, heuristic runs, file writes

vars == <<PDF_AVAILABLE, req, pc, server, prompt, raw_response, parsed,
          formatted, response, body, fs, running, calls>>

\* ------------------------------------------------------------------ bounds

MaxCodeLen == 5
MaxItems == 2

\* -------------------------------------------------------------------- text

Q == "\""
QQQ == <<Q, Q, Q>>
NL == "\n"
Whitespace == {" ", NL}
Alphabet == {Q, "/", "0", " ", NL, "a"}

Min(S) == CHOOSE x \in S : \A y \in S : x <= y

\* str.find(sep, from): the first index >= from where sep occurs, 0 if none.
IndexOf(s, sep, from) ==
    LET c == {i \in from..(Len(s) - Len(sep) + 1) :
                 SubSeq(s, i, i + Len(sep) - 1) = sep}
    IN IF c = {} THEN 0 ELSE Min(c)

\* sep in s
Contains(s, sep) == IndexOf(s, sep, 1) # 0

\* str.split(sep): left to right, non-overlapping.
RECURSIVE Split(_, _)
Split(s, sep) ==
    LET i == IndexOf(s, sep, 1)
    IN IF i = 0 THEN <<s>>
       ELSE <<SubSeq(s, 1, i - 1)>> \o Split(SubSeq(s, i + Len(sep), Len(s)), sep)

\* str.splitlines(): no final empty line after a trailing line feed.
RECURSIVE splitlines(_)
splitlines(s) ==
    IF s = <<>> THEN <<>>
    ELSE LET i == IndexOf(s, <<NL>>, 1)
         IN IF i = 0 THEN <<s>>
            ELSE <<SubSeq(s, 1, i - 1)>> \o splitlines(SubSeq(s, i + 1, Len(s)))

\* str.strip(): leading and trailing whitespace removed.
RECURSIVE strip(_)
strip(s) ==
    IF s = <<>> THEN <<>>
    ELSE IF Head(s) \in Whitespace THEN strip(Tail(s))
    ELSE IF s[Len(s)] \in Whitespace THEN strip(SubSeq(s, 1, Len(s) - 1))
    ELSE s

\* line.replace(" ", "")
RemoveSpaces(line) == SelectSeq(line, LAMBDA c : c # " ")

\* `if not req.code.strip()` (a mutant tests the code without stripping it)
IsBlankNoStrip(code) == code = <<>>

IsBlank(code) == strip(code) = <<>>

\* ------------------------------------------------------------- JSON values

\* A decoded JSON value: kind k, and the payload of that kind (the others
\* empty): s for a string, n for a number, items for a list, d for an object.
EmptyD == [x \in {} |-> 0]
JV(k, s, n, items, d) == [k |-> k, s |-> s, n |-> n, items |-> items, d |-> d]
None == JV("null", <<>>, 0, <<>>, EmptyD)
Num(n) == JV("num", <<>>, n, <<>>, EmptyD)
Str(s) == JV("str", s, 0, <<>>, EmptyD)
List(items) == JV("list", <<>>, 0, items, EmptyD)
Dict(d) == JV("dict", <<>>, 0, <<>>, d)

Tok(t) == Str(<<t>>)

\* dict.get(key, default)
Get(d, key, default) == IF key \in DOMAIN d THEN d[key] ELSE default

\* dict.setdefault(key, default), as the dict it leaves
SetDefault(d, key, default) ==
    [x \in DOMAIN d \cup {key} |-> IF x \in DOMAIN d THEN d[x] ELSE default]

\* Python truthiness
Truthy(j) ==
    CASE j.k = "null" -> FALSE
      [] j.k = "num" -> j.n # 0
      [] j.k = "str" -> j.s # <<>>
      [] j.k = "list" -> j.items # <<>>
      [] j.k = "dict" -> DOMAIN j.d # {}

RECURSIVE SetToSeq(_)
SetToSeq(S) ==
    IF S = {} THEN <<>>
    ELSE LET x == CHOOSE y \in S : TRUE IN <<x>> \o SetToSeq(S \ {x})

\* iter(j): the items of a list, the characters of a string, the keys of an
\* object; a number or None is not iterable (TypeError).
Iter(j) ==
    CASE j.k = "list" -> [ok |-> TRUE, items |-> j.items]
      [] j.k = "str" -> [ok |-> TRUE, items |-> [i \in 1..Len(j.s) |-> Tok(j.s[i])]]
      [] j.k = "dict" ->
            LET ks == SetToSeq(DOMAIN j.d)
            IN [ok |-> TRUE, items |-> [i \in 1..Len(ks) |-> Tok(ks[i])]]
      [] OTHER -> [ok |-> FALSE, items |-> <<>>]

\* str(j), as an f-string renders it
StrOf(j) ==
    CASE j.k = "null" -> <<"None">>
      [] j.k = "num" -> <<ToString(j.n)>>
      [] j.k = "str" -> j.s
      [] j.k = "list" -> <<"[...]">>
      [] j.k = "dict" -> <<"{...}">>

\* A text as call_llm returns it: its tokens s, and what json.loads makes of
\* it (ok: it decodes, to v).  k = "none": the completion was not a string.
Text(s, ok, v) == [k |-> "str", s |-> s, ok |-> ok, v |-> v]
NotAText == [k |-> "none", s |-> <<>>, ok |-> FALSE, v |-> None]
Garbage(s) == Text(s, FALSE, None)

\* json.dumps(v): a text that decodes to v
json_dumps(v) == Text(<<"json.dumps">>, TRUE, v)

\* json.loads(t): raises on a text that is not JSON and on a non-string
json_loads(t) == [ok |-> t.k = "str" /\ t.ok, v |-> t.v]

\* ----------------------------------------------------------- build_prompt

PromptHead ==
    <<NL, "You are a senior software engineer and code reviewer. Analyze the ">>
PromptMid ==
    <<" code and return a JSON object ONLY:", NL,
      "- summary, issues, suggestions, automatic_fixes, effort_estimate, docs_updates, metadata.",
      NL, "CODE:", NL>>
PromptTail == <<NL>>

build_prompt(code, language) ==
    PromptHead \o language \o PromptMid \o QQQ \o code \o QQQ \o PromptTail

\* ------------------------------------------------------ simulate_analysis

\* "/ 0" in line or "/0" in line.replace(" ", "")
ZeroDiv(line) ==
    \/ Contains(line, <<"/", " ", "0">>)
    \/ Contains(RemoveSpaces(line), <<"/", "0">>)

\* the 1-based numbers of the lines of `code` that match, in order
MatchingLines(code) ==
    LET lines == splitlines(code)
    IN SelectSeq([i \in 1..Len(lines) |-> i], LAMBDA i : ZeroDiv(lines[i]))

\* lines 90-94: the code the heuristic scans
ExtractCode(p) ==
    IF Contains(p, QQQ)
    THEN LET parts == Split(p, QQQ)
         IN IF Len(parts) >= 2 THEN parts[2] ELSE <<>>
    ELSE <<>>

HeuristicIssue(idx) ==
    Dict([line |-> Num(idx),
          severity |-> Tok("high"),
          title |-> Tok("ZeroDivisionError possible"),
          description |-> Tok("Division by zero detected. This will raise an exception at runtime.")])

HeuristicSuggestion == Tok("Check for division by zero before performing division.")

HeuristicFix ==
    Dict([description |-> Tok("Add check for zero denominator"),
          patch |-> Str(<<"if b != 0:", NL, "    result = a / b", NL, "else:", NL,
                          "    result = None  # handle error">>)])

SummaryBase == "Simulated analysis (LLM not available)."
SummaryNoIssues == " No obvious runtime errors detected."

Simulated(p) ==
    LET hits == MatchingLines(ExtractCode(p))
    IN Dict([summary |-> Str(IF hits = <<>> THEN <<SummaryBase, SummaryNoIssues>>
                                            ELSE <<SummaryBase>>),
             issues |-> List([i \in 1..Len(hits) |-> HeuristicIssue(hits[i])]),
             suggestions |-> List([i \in 1..Len(hits) |-> HeuristicSuggestion]),
             automatic_fixes |-> List([i \in 1..Len(hits) |-> HeuristicFix]),
             effort_estimate |-> Tok("5-15 minutes"),
             docs_updates |-> List(<<Tok("Add README section describing usage.")>>),
             metadata |-> Dict([language |-> Tok("python"),
                                analysis_time |-> Tok("simulated")])])

simulate_analysis(p) == json_dumps(Simulated(p))

\* ---------------------------------------------------------------- call_llm

\* What the model server does for one call: k = "ok" is a 2xx answer whose
\* body decodes as JSON, to a list or to an object (body) that has a
\* completion field or not (has); any other k is a failure raised inside the
\* try block of call_llm.
Behaviour(k, bodyKind, has, completion) ==
    [k |-> k, body |-> bodyKind, has |-> has, completion |-> completion]
Failure(k) == Behaviour(k, "none", FALSE, NotAText)
ListBody == Behaviour("ok", "list", FALSE, NotAText)
NoCompletion == Behaviour("ok", "dict", FALSE, NotAText)
Completion(c) == Behaviour("ok", "dict", TRUE, c)

\* line 79 raises (ConnectionError, Timeout), line 80 raises (HTTPError),
\* line 81 raises (not JSON), line 83 raises (the body is a list)
Raises(b) == b.k # "ok" \/ b.body # "dict"

call_llm(p, b) ==
    IF Raises(b) THEN simulate_analysis(p)
    ELSE IF b.has THEN b.completion
    ELSE Garbage(<<>>)                       \* data.get("completion", "")

\* ------------------------------------------------------- the result parser

\* the value of raw_response, as the summary of the minimal result holds it
AsValue(t) == IF t.k = "str" THEN Str(t.s) ELSE None

\* lines 173-174
Minimal(t, language) ==
    Dict([summary |-> AsValue(t),
          issues |-> List(<<>>),
          suggestions |-> List(<<>>),
          automatic_fixes |-> List(<<>>),
          effort_estimate |-> None,
          docs_updates |-> List(<<>>),
          metadata |-> Dict([language |-> Str(language)])])

\* (a mutant overwrites metadata.language instead of setdefault)
parse_response_overwrite(t, language) ==
    LET r == json_loads(t)
    IN IF ~r.ok \/ r.v.k # "dict" THEN Minimal(t, language)
       ELSE LET d1 == SetDefault(r.v.d, "metadata", Dict(EmptyD))
            IN IF d1["metadata"].k # "dict" THEN Minimal(t, language)
               ELSE Dict([d1 EXCEPT !["metadata"] =
                            Dict([x \in DOMAIN @.d \cup {"language"} |->
                                    IF x = "language" THEN Str(language) ELSE @.d[x]])])

\* lines 168-174
parse_response(t, language) ==
    LET r == json_loads(t)
    IN IF ~r.ok THEN Minimal(t, language)                \* json.loads raises
       ELSE IF r.v.k # "dict" THEN Minimal(t, language)  \* no .setdefault
       ELSE LET d1 == SetDefault(r.v.d, "metadata", Dict(EmptyD))
            IN IF d1["metadata"].k # "dict" THEN Minimal(t, language)
               ELSE Dict([d1 EXCEPT !["metadata"] =
                            Dict(SetDefault(@.d, "language", Str(language)))])

\* --------------------------------------------------------- format_analysis

HSummary == "### Summary"
HIssues == "### Issues Found"
HSuggestions == "### Suggestions"
HFixes == "### Automatic Fixes"
HEffort == "### Estimated Effort"
HDocs == "### Documentation Updates"
Headers == {HSummary, HIssues, HSuggestions, HFixes, HEffort, HDocs}

Ok(out) == [ok |-> TRUE, out |-> out]
Raise == [ok |-> FALSE, out |-> <<>>]

AllDicts(items) == \A i \in 1..Len(items) : items[i].k = "dict"

\* line 133
SummarySection(a) ==
    Ok(<<HSummary, NL>> \o StrOf(Get(a, "summary", Str(<<>>))) \o <<NL, NL>>)

\* lines 137-138
IssueLine(i, issue) ==
    <<ToString(i), ". **">> \o StrOf(Get(issue.d, "title", None))
    \o <<"** (line ">> \o StrOf(Get(issue.d, "line", Tok("N/A")))
    \o <<", severity ">> \o StrOf(Get(issue.d, "severity", None))
    \o <<"): ">> \o StrOf(Get(issue.d, "description", None)) \o <<NL>>

RECURSIVE IssueLines(_, _)
IssueLines(items, i) ==
    IF i > Len(items) THEN <<>>
    ELSE IssueLine(i, items[i]) \o IssueLines(items, i + 1)

\* lines 134-139
IssuesSection(a) ==
    LET v == Get(a, "issues", None)
    IN IF ~Truthy(v) THEN Ok(<<>>)
       ELSE LET it == Iter(v)
            IN IF ~it.ok \/ ~AllDicts(it.items) THEN Raise
               ELSE Ok(<<HIssues, NL>> \o IssueLines(it.items, 1) \o <<NL>>)

RECURSIVE Bullets(_)
Bullets(items) ==
    IF items = <<>> THEN <<>>
    ELSE <<"- ">> \o StrOf(Head(items)) \o <<NL>> \o Bullets(Tail(items))

\* lines 140-144 and 152-156
BulletSection(a, key, header) ==
    LET v == Get(a, key, None)
    IN IF ~Truthy(v) THEN Ok(<<>>)
       ELSE LET it == Iter(v)
            IN IF ~it.ok THEN Raise
               ELSE Ok(<<header, NL>> \o Bullets(it.items) \o <<NL>>)

\* the three backquotes that open and close a patch block
Fence == "[fence]"

RECURSIVE FixBlocks(_)
FixBlocks(items) ==
    IF items = <<>> THEN <<>>
    ELSE <<"**">> \o StrOf(Get(Head(items).d, "description", None))
         \o <<"**", NL, Fence, "python", NL>>
         \o StrOf(Get(Head(items).d, "patch", None)) \o <<NL, Fence, NL>>
         \o FixBlocks(Tail(items))

\* lines 145-149
FixesSection(a) ==
    LET v == Get(a, "automatic_fixes", None)
    IN IF ~Truthy(v) THEN Ok(<<>>)
       ELSE LET it == Iter(v)
            IN IF ~it.ok \/ ~AllDicts(it.items) THEN Raise
               ELSE Ok(<<HFixes, NL>> \o FixBlocks(it.items) \o <<NL>>)

\* lines 150-151
EffortSection(a) ==
    LET v == Get(a, "effort_estimate", None)
    IN IF ~Truthy(v) THEN Ok(<<>>)
       ELSE Ok(<<HEffort, NL>> \o StrOf(v) \o <<NL, NL>>)

\* the sections in turn; the first one that raises ends the call
RECURSIVE JoinSections(_)
JoinSections(secs) ==
    IF secs = <<>> THEN Ok(<<>>)
    ELSE IF ~Head(secs).ok THEN Raise
    ELSE LET rest == JoinSections(Tail(secs))
         IN IF ~rest.ok THEN Raise ELSE Ok(Head(secs).out \o rest.out)

\* (a mutant emits the effort section after the documentation updates and
\* the documentation header even for an empty list)
format_analysis_misordered(a) ==
    JoinSections(<<SummarySection(a), IssuesSection(a),
                   BulletSection(a, "suggestions", HSuggestions),
                   FixesSection(a),
                   Ok(<<HDocs, NL>>),
                   EffortSection(a)>>)

\* lines 131-157, on the dict `a`
format_analysis(a) ==
    JoinSections(<<SummarySection(a), IssuesSection(a),
                   BulletSection(a, "suggestions", HSuggestions),
                   FixesSection(a), EffortSection(a),
                   BulletSection(a, "docs_updates", HDocs)>>)

\* ------------------------------------------------------------------ inputs

Issue(line) ==
    Dict([line |-> line, severity |-> Tok("low"), title |-> Tok("unused name"),
          description |-> Tok("The name is never read.")])
Fix == Dict([description |-> Tok("Remove it"), patch |-> Tok("del x")])

WellFormed ==
    Dict([summary |-> Tok("Looks fine."),
          issues |-> List(<<Issue(Num(3)), Dict([title |-> Tok("no line")])>>),
          suggestions |-> List(<<Tok("Add tests.")>>),
          automatic_fixes |-> List(<<Fix>>),
          effort_estimate |-> Tok("1 hour"),
          docs_updates |-> List(<<Tok("Document it.")>>),
          metadata |-> Dict([analysis_time |-> Tok("2s")])])

\* Completion texts the model server may return, with what they decode to.
ProviderTexts ==
    {Garbage(<<>>),
     Garbage(<<"LGTM, no issues.">>),
     Text(<<"[1]">>, TRUE, List(<<Num(1)>>)),
     Text(<<"null">>, TRUE, None),
     Text(<<"7">>, TRUE, Num(7)),
     Text(<<"{}">>, TRUE, Dict(EmptyD)),
     Text(<<"{\"summary\": \"ok\"}">>, TRUE, Dict([summary |-> Tok("ok")])),
     Text(<<"{\"metadata\": \"x\"}">>, TRUE, Dict([metadata |-> Tok("x")])),
     Text(<<"{\"metadata\": null}">>, TRUE, Dict([metadata |-> None])),
     Text(<<"{\"metadata\": [1]}">>, TRUE, Dict([metadata |-> List(<<Num(1)>>)])),
     Text(<<"{\"metadata\": {}}">>, TRUE, Dict([metadata |-> Dict(EmptyD)])),
     Text(<<"{\"metadata\": {\"language\": \"go\"}}">>, TRUE,
          Dict([metadata |-> Dict([language |-> Tok("go")])])),
     Text(<<"{\"metadata\": {\"language\": null}, \"summary\": null}">>, TRUE,
          Dict([metadata |-> Dict([language |-> None]), summary |-> None])),
     Text(<<"{well-formed result}">>, TRUE, WellFormed),
     Text(<<"{\"issues\": [1]}">>, TRUE, Dict([issues |-> List(<<Num(1)>>)])),
     Text(<<"{\"issues\": 5}">>, TRUE, Dict([issues |-> Num(5)])),
     Text(<<"{\"issues\": 0}">>, TRUE, Dict([issues |-> Num(0)])),
     Text(<<"{\"issues\": \"x\"}">>, TRUE, Dict([issues |-> Tok("x")])),
     Text(<<"{\"suggestions\": 5}">>, TRUE, Dict([suggestions |-> Num(5)])),
     Text(<<"{\"suggestions\": \"ab\"}">>, TRUE,
          Dict([suggestions |-> Str(<<"a", "b">>)])),
     Text(<<"{\"suggestions\": [1, null, [], {}]}">>, TRUE,
          Dict([suggestions |-> List(<<Num(1), None, List(<<>>), Dict(EmptyD)>>)])),
     Text(<<"{\"automatic_fixes\": [\"x\"]}">>, TRUE,
          Dict([automatic_fixes |-> List(<<Tok("x")>>)])),
     Text(<<"{\"automatic_fixes\": {\"patch\": 1}}">>, TRUE,
          Dict([automatic_fixes |-> Dict([patch |-> Num(1)])])),
     Text(<<"{\"effort_estimate\": 3}">>, TRUE, Dict([effort_estimate |-> Num(3)])),
     Text(<<"{\"docs_updates\": 7}">>, TRUE, Dict([docs_updates |-> Num(7)])),
     Text(<<"{\"docs_updates\": {\"a\": 1}}">>, TRUE,
          Dict([docs_updates |-> Dict([a |-> Num(1)])]))}

Completions == ProviderTexts \cup {NotAText}

Failures ==
    {Failure("connection_error"), Failure("timeout"), Failure("http_error"),
     Failure("not_json"), ListBody}

Behaviours == Failures \cup {NoCompletion} \cup {Completion(c) : c \in Completions}

\* the behaviours the two-request specification draws from
FewBehaviours ==
    {Failure("timeout"),
     Completion(Garbage(<<"LGTM, no issues.">>)),
     Completion(Text(<<"{\"issues\": [1]}">>, TRUE, Dict([issues |-> List(<<Num(1)>>)])))}

\* all sequences over S of up to n elements
RECURSIVE SeqsUpTo(_, _)
SeqsUpTo(S, n) ==
    IF n = 0 THEN {<<>>}
    ELSE LET shorter == SeqsUpTo(S, n - 1)
         IN shorter \cup {Append(t, c) : t \in {u \in shorter : Len(u) = n - 1},
                                          c \in S}

\* the codes of the heuristic's specification: those line 162 lets through
Codes == {c \in SeqsUpTo(Alphabet, MaxCodeLen) : ~IsBlank(c)}

\* well-typed AnalysisResults, with and without the optional effort_estimate
ResultWithoutEffort(sm, is, sg, fx, dc) ==
    [summary |-> sm, issues |-> List(is), suggestions |-> List(sg),
     automatic_fixes |-> List(fx), docs_updates |-> List(dc),
     metadata |-> Dict([language |-> Tok("python")])]

AnalysisResults ==
    LET base == {ResultWithoutEffort(sm, is, sg, fx, dc) :
                    sm \in {Str(<<>>), Tok("Looks fine.")},
                    is \in SeqsUpTo({Issue(Num(3)), Issue(Tok("unknown"))}, MaxItems),
                    sg \in SeqsUpTo({Tok("Add tests.")}, MaxItems),
                    fx \in SeqsUpTo({Fix}, MaxItems),
                    dc \in SeqsUpTo({Tok("Document it.")}, MaxItems)}
    IN {Dict(a) : a \in base}
       \cup {Dict(SetDefault(a, "effort_estimate", e)) :
                a \in base, e \in {None, Str(<<>>), Tok("1 hour")}}

Languages == {<<"python">>, QQQ, QQQ \o <<"/", "0">>}

HandlerCodes ==
    {<<>>, <<" ">>, <<NL, " ">>, <<"a">>, <<"a", " ", "/", " ", "0">>,
     <<"a", NL, "a", "/", "0", NL, "/", "0">>}

CodeRequest(code, language, request_pdf) ==
    [code |-> code, language |-> language, request_pdf |-> request_pdf]

\* ------------------------------------------------------------ the handler

Requests == {1, 2}

\* lines 179 and 190; os.getpid() is the same for every request of a process
TempDir == "/tmp"
Pid == "4242"
tmp_file == <<TempDir, "/", "analysis_", Pid, ".pdf">>
Replace(path, old, new) ==
    [i \in 1..Len(path) |-> IF path[i] = old THEN new ELSE path[i]]
txt_file == Replace(tmp_file, ".pdf", ".txt")
Paths == {tmp_file, txt_file}

File(kind, text) == [kind |-> kind, text |-> text]
NoFile == File("missing", <<>>)

\* pdf.output(tmp_file): the document the library renders from the text
PdfDocument(text) == File("pdf", text)

\* (a mutant writes the summary section alone)
TextFileSummaryOnly(text) == File("txt", SubSeq(text, 1, 3))

\* lines 191-192
TextFile(text) == File("txt", text)

Resp(status, kind, text, raw, path, media, filename) ==
    [status |-> status, kind |-> kind, formatted_analysis |-> text, raw |-> raw,
     path |-> path, media_type |-> media, filename |-> filename]
NoResponse == Resp(0, "none", <<>>, None, <<>>, "", "")
HTTPException(status) == Resp(status, "error", <<>>, None, <<>>, "", "")
\* an exception that escapes the handler: the framework answers 500
Unhandled == Resp(500, "error", <<>>, None, <<>>, "", "")
JSONResponse(text, raw) == Resp(200, "json", text, raw, <<>>, "application/json", "")
FileResponse(path, media, filename) == Resp(200, "file", <<>>, None, path, media, filename)

NoCalls == [llm |-> 0, heuristic |-> 0, writes |-> 0, render |-> "none"]

\* lines 162-163; the handler takes the event loop and, being a coroutine
\* that never awaits, keeps it until it returns or raises
Validate(r) ==
    /\ pc[r] = "new" /\ running = 0
    /\ IF IsBlank(req[r].code)
       THEN /\ response' = [response EXCEPT ![r] = HTTPException(400)]
            /\ pc' = [pc EXCEPT ![r] = "done"]
            /\ UNCHANGED running
       ELSE /\ pc' = [pc EXCEPT ![r] = "validated"]
            /\ running' = r
            /\ UNCHANGED response
    /\ UNCHANGED <<PDF_AVAILABLE, req, server, prompt, raw_response, parsed,
                   formatted, body, fs, calls>>

\* lines 165-166
CallLLM(r, B) ==
    /\ pc[r] = "validated" /\ running = r
    /\ \E b \in B :
         LET p == build_prompt(req[r].code, req[r].language)
         IN /\ server' = [server EXCEPT ![r] = b]
            /\ prompt' = [prompt EXCEPT ![r] = p]
            /\ raw_response' = [raw_response EXCEPT ![r] = call_llm(p, b)]
            /\ calls' = [calls EXCEPT ![r].llm = @ + 1,
                                      ![r].heuristic = IF Raises(b) THEN @ + 1 ELSE @]
    /\ pc' = [pc EXCEPT ![r] = "called"]
    /\ UNCHANGED <<PDF_AVAILABLE, req, parsed, formatted, response, body, fs, running>>

\* lines 168-174
Parse(r) ==
    /\ pc[r] = "called" /\ running = r
    /\ parsed' = [parsed EXCEPT ![r] = parse_response(raw_response[r], req[r].language)]
    /\ pc' = [pc EXCEPT ![r] = "parsed"]
    /\ UNCHANGED <<PDF_AVAILABLE, req, server, prompt, raw_response, formatted,
                   response, body, fs, running, calls>>

\* line 176; an exception raised by format_analysis escapes the handler
Format(r) ==
    /\ pc[r] = "parsed" /\ running = r
    /\ LET f == format_analysis(parsed[r].d)
       IN IF f.ok
          THEN /\ formatted' = [formatted EXCEPT ![r] = f.out]
               /\ pc' = [pc EXCEPT ![r] = "formatted"]
               /\ UNCHANGED <<response, running>>
          ELSE /\ response' = [response EXCEPT ![r] = Unhandled]
               /\ pc' = [pc EXCEPT ![r] = "done"]
               /\ running' = 0
               /\ UNCHANGED formatted
    /\ UNCHANGED <<PDF_AVAILABLE, req, server, prompt, raw_response, parsed,
                   body, fs, calls>>

\* line 195
RespondJson(r) ==
    /\ pc[r] = "formatted" /\ running = r
    /\ ~req[r].request_pdf
    /\ response' = [response EXCEPT ![r] = JSONResponse(formatted[r], parsed[r])]
    /\ pc' = [pc EXCEPT ![r] = "done"]
    /\ running' = 0
    /\ UNCHANGED <<PDF_AVAILABLE, req, server, prompt, raw_response, parsed,
                   formatted, body, fs, calls>>

\* lines 180-187: the library renders the document and writes it
RenderPdf(r) ==
    /\ pc[r] = "formatted" /\ running = r
    /\ req[r].request_pdf /\ PDF_AVAILABLE
    /\ fs' = [fs EXCEPT ![tmp_file] = PdfDocument(formatted[r])]
    /\ calls' = [calls EXCEPT ![r].writes = @ + 1, ![r].render = "ok"]
    /\ response' = [response EXCEPT ![r] =
                       FileResponse(tmp_file, "application/pdf", "analysis.pdf")]
    /\ pc' = [pc EXCEPT ![r] = "send"]
    /\ running' = 0
    /\ UNCHANGED <<PDF_AVAILABLE, req, server, prompt, raw_response, parsed,
                   formatted, body>>

\* lines 180-193: the library is missing, or a step of lines 182-186 raises
\* (before pdf.output has opened the file, or after it has: `opened`), and
\* the handler writes the text file
RenderText(r) ==
    /\ pc[r] = "formatted" /\ running = r
    /\ req[r].request_pdf
    /\ \E opened \in BOOLEAN :
         /\ opened => PDF_AVAILABLE
         /\ LET fs1 == IF opened THEN [fs EXCEPT ![tmp_file] = File("pdf_partial", <<>>)]
                                 ELSE fs
            IN fs' = [fs1 EXCEPT ![txt_file] = TextFile(formatted[r])]
    /\ calls' = [calls EXCEPT ![r].writes = @ + 1,
                              ![r].render = IF PDF_AVAILABLE THEN "failed"
                                                             ELSE "unavailable"]
    /\ response' = [response EXCEPT ![r] =
                       FileResponse(txt_file, "text/plain", "analysis.txt")]
    /\ pc' = [pc EXCEPT ![r] = "send"]
    /\ running' = 0
    /\ UNCHANGED <<PDF_AVAILABLE, req, server, prompt, raw_response, parsed,
                   formatted, body>>

\* FileResponse reads the file when the response is sent, after the handler
\* has returned and the event loop is free
Send(r) ==
    /\ pc[r] = "send" /\ running = 0
    /\ body' = [body EXCEPT ![r] = fs[response[r].path]]
    /\ pc' = [pc EXCEPT ![r] = "done"]
    /\ UNCHANGED <<PDF_AVAILABLE, req, server, prompt, raw_response, parsed,
                   formatted, response, fs, running, calls>>

Step(r, B) ==
    \/ Validate(r)
    \/ CallLLM(r, B)
    \/ Parse(r)
    \/ Format(r)
    \/ RespondJson(r)
    \/ RenderPdf(r)
    \/ RenderText(r)
    \/ Send(r)

InitCommon ==
    /\ PDF_AVAILABLE \in BOOLEAN
    /\ server = [r \in Requests |-> Failure("none")]
    /\ prompt = [r \in Requests |-> <<>>]
    /\ raw_response = [r \in Requests |-> NotAText]
    /\ formatted = [r \in Requests |-> <<>>]
    /\ response = [r \in Requests |-> NoResponse]
    /\ body = [r \in Requests |-> NoFile]
    /\ fs = [p \in Paths |-> NoFile]
    /\ running = 0
    /\ calls = [r \in Requests |-> NoCalls]

\* One request to POST /analyze.
Init ==
    /\ InitCommon
    /\ parsed = [r \in Requests |-> None]
    /\ \E c \in HandlerCodes, l \in {<<"python">>, <<"go">>}, f \in BOOLEAN :
         req = [r \in Requests |-> CodeRequest(c, l, f)]
    /\ pc = [r \in Requests |-> IF r = 1 THEN "new" ELSE "absent"]

Next == Step(1, Behaviours)

Spec == Init /\ [][Next]_vars

\* Two requests served by the same process.
InitTwo ==
    /\ InitCommon
    /\ parsed = [r \in Requests |-> None]
    /\ req \in [Requests -> {CodeRequest(c, <<"python">>, f) :
                               c \in {<<" ">>, <<"a">>, <<"a", "/", "0">>},
                               f \in BOOLEAN}]
    /\ pc = [r \in Requests |-> "new"]

NextTwo == \E r \in Requests : Step(r, FewBehaviours)

SpecTwo == InitTwo /\ [][NextTwo]_vars

\* --------------------------------------- the pure functions, on their own

\* build_prompt applied to a code and a language
BuildPrompt(r) ==
    /\ pc[r] = "prompt_new"
    /\ prompt' = [prompt EXCEPT ![r] = build_prompt(req[r].code, req[r].language)]
    /\ pc' = [pc EXCEPT ![r] = "prompt_built"]
    /\ UNCHANGED <<PDF_AVAILABLE, req, server, raw_response, parsed, formatted,
                   response, body, fs, running, calls>>

\* simulate_analysis applied to that prompt, as line 86 does
Simulate(r) ==
    /\ pc[r] = "prompt_built"
    /\ raw_response' = [raw_response EXCEPT ![r] = simulate_analysis(prompt[r])]
    /\ calls' = [calls EXCEPT ![r].heuristic = @ + 1]
    /\ pc' = [pc EXCEPT ![r] = "simulated"]
    /\ UNCHANGED <<PDF_AVAILABLE, req, server, prompt, parsed, formatted,
                   response, body, fs, running>>

InitHeuristic ==
    /\ InitCommon
    /\ parsed = [r \in Requests |-> None]
    /\ PDF_AVAILABLE
    /\ \E c \in Codes, l \in Languages :
         req = [r \in Requests |-> CodeRequest(c, l, FALSE)]
    /\ pc = [r \in Requests |-> IF r = 1 THEN "prompt_new" ELSE "absent"]

NextHeuristic == BuildPrompt(1) \/ Simulate(1)

SpecHeuristic == InitHeuristic /\ [][NextHeuristic]_vars

\* format_analysis applied to an AnalysisResult
FormatOnly(r) ==
    /\ pc[r] = "format_new"
    /\ LET f == format_analysis(parsed[r].d)
       IN /\ formatted' = [formatted EXCEPT ![r] = f.out]
          /\ response' = [response EXCEPT ![r] = IF f.ok THEN @ ELSE Unhandled]
    /\ pc' = [pc EXCEPT ![r] = "format_done"]
    /\ UNCHANGED <<PDF_AVAILABLE, req, server, prompt, raw_response, parsed,
                   body, fs, running, calls>>

InitFormat ==
    /\ InitCommon
    /\ PDF_AVAILABLE
    /\ req = [r \in Requests |-> CodeRequest(<<"a">>, <<"python">>, FALSE)]
    /\ \E a \in AnalysisResults :
         parsed = [r \in Requests |-> IF r = 1 THEN a ELSE None]
    /\ pc = [r \in Requests |-> IF r = 1 THEN "format_new" ELSE "absent"]

NextFormat == FormatOnly(1)

SpecFormat == InitFormat /\ [][NextFormat]_vars

\* ------------------------------------------------------------------ claims

Handled(r) == pc[r] \in {"parsed", "formatted", "send", "done"} /\ response[r].status # 400

OnlyWhitespace(code) == \A i \in 1..Len(code) : code[i] \in Whitespace

Items(v, key) == v.d[key].items

\* C1: a request whose code is not blank and whose request_pdf is false is
\* answered 200 with the JSON body, whatever the model server did.
C1_AlwaysJson200 ==
    \A r \in Requests :
        (pc[r] = "done" /\ ~OnlyWhitespace(req[r].code) /\ ~req[r].request_pdf)
        => response[r].status = 200 /\ response[r].kind = "json"

\* C2: a request whose code is empty or whitespace only is answered 400
\* before any other step: no remote call, no heuristic run, no file written,
\* nothing computed, whatever language and request_pdf are.
C2_BlankRejectedFirst ==
    \A r \in Requests :
        (pc[r] \notin {"new", "absent"} /\ OnlyWhitespace(req[r].code))
        => /\ pc[r] = "done"
           /\ response[r] = HTTPException(400)
           /\ calls[r] = NoCalls
           /\ prompt[r] = <<>> /\ raw_response[r] = NotAText
           /\ \A p \in Paths : fs[p] = NoFile

C2_Witness ==
    /\ pc[1] = "done" /\ req[1].code = <<NL, " ">> /\ req[1].request_pdf
    /\ response[1].status = 400

ListedFailure(b) ==
    b.k \in {"connection_error", "timeout", "http_error", "not_json"}
    \/ (b.k = "ok" /\ ~b.has)

HeuristicKeys ==
    {"summary", "issues", "suggestions", "automatic_fixes", "effort_estimate",
     "docs_updates", "metadata"}

\* C3: when the remote call fails (transport error, timeout, non-success
\* status, a body that is not JSON, or a JSON body without a completion
\* field), the result is the heuristic's: metadata.analysis_time is
\* "simulated" and the keys are exactly the heuristic's.
C3_FailureFallsBack ==
    \A r \in Requests :
        (Handled(r) /\ ListedFailure(server[r]))
        => /\ DOMAIN parsed[r].d = HeuristicKeys
           /\ parsed[r].d.metadata.k = "dict"
           /\ "analysis_time" \in DOMAIN parsed[r].d.metadata.d
           /\ parsed[r].d.metadata.d.analysis_time = Tok("simulated")

\* C4: the heuristic's issues are the matching lines of the submitted code,
\* one issue of severity "high" per matching line, in order, each with the
\* 1-based number of its line; suggestions and fixes are as many.
C4_IssuesAreMatchingLines ==
    pc[1] = "simulated" =>
        LET v == json_loads(raw_response[1]).v
            hits == MatchingLines(req[1].code)
        IN /\ Len(Items(v, "issues")) = Len(hits)
           /\ \A i \in 1..Len(hits) :
                /\ Items(v, "issues")[i].d.line = Num(hits[i])
                /\ Items(v, "issues")[i].d.severity = Tok("high")
           /\ Len(Items(v, "suggestions")) = Len(hits)
           /\ Len(Items(v, "automatic_fixes")) = Len(hits)

EndsWithNoIssues(v) ==
    v.d.summary.s # <<>> /\ v.d.summary.s[Len(v.d.summary.s)] = SummaryNoIssues

\* C5: when no line of the submitted code matches, the heuristic reports no
\* issue and its summary ends with the no-issues sentence; and the summary
\* ends with that sentence only when there is no issue.
C5_NoMatchNoIssue ==
    pc[1] = "simulated" =>
        LET v == json_loads(raw_response[1]).v
        IN /\ MatchingLines(req[1].code) = <<>>
                => Items(v, "issues") = <<>> /\ EndsWithNoIssues(v)
           /\ EndsWithNoIssues(v) => Items(v, "issues") = <<>>

NonEmptyList(a, key) == key \in DOMAIN a /\ a[key].k = "list" /\ a[key].items # <<>>
NonEmptyText(a, key) == key \in DOMAIN a /\ a[key].k = "str" /\ a[key].s # <<>>
When(cond, header) == IF cond THEN <<header>> ELSE <<>>

ExpectedHeaders(a) ==
    <<HSummary>>
    \o When(NonEmptyList(a, "issues"), HIssues)
    \o When(NonEmptyList(a, "suggestions"), HSuggestions)
    \o When(NonEmptyList(a, "automatic_fixes"), HFixes)
    \o When(NonEmptyText(a, "effort_estimate"), HEffort)
    \o When(NonEmptyList(a, "docs_updates"), HDocs)

\* C6: format_analysis emits Summary always and each other section exactly
\* when its field is non-empty, in the order Summary, Issues Found,
\* Suggestions, Automatic Fixes, Estimated Effort, Documentation Updates;
\* with every optional field empty the output is the Summary section alone.
C6_SectionsInOrder ==
    pc[1] = "format_done" =>
        /\ response[1] # Unhandled
        /\ SelectSeq(formatted[1], LAMBDA t : t \in Headers) = ExpectedHeaders(parsed[1].d)
        /\ ExpectedHeaders(parsed[1].d) = <<HSummary>>
              => formatted[1] = <<HSummary, NL>> \o parsed[1].d.summary.s \o <<NL, NL>>

C6_Witness ==
    /\ pc[1] = "format_done"
    /\ ExpectedHeaders(parsed[1].d) = <<HSummary, HIssues, HEffort>>
    /\ Len(parsed[1].d.issues.items) = 2

RenderFailed(r) == calls[r].render \in {"failed", "unavailable"}

\* C7: a request with request_pdf whose document rendering fails (library
\* missing, or a rendering step raises) is answered with the text file:
\* 200, text/plain, analysis.txt, one text file written, and the body
\* delivered is the formatted text of the request.
C7_TextFallback ==
    (pc[1] = "done" /\ req[1].request_pdf /\ RenderFailed(1))
    => /\ response[1] = FileResponse(txt_file, "text/plain", "analysis.txt")
       /\ calls[1].writes = 1
       /\ fs[txt_file].kind = "txt"
       /\ fs[tmp_file].kind # "txt"
       /\ body[1].kind = "txt"
       /\ body[1].text = formatted[1]

C7_Witness ==
    /\ pc[1] = "done" /\ req[1].request_pdf /\ PDF_AVAILABLE
    /\ calls[1].render = "failed"
    /\ fs[tmp_file].kind = "pdf_partial"
    /\ Len(body[1].text) > 3

OwnDocument(r) ==
    IF response[r].media_type = "application/pdf" THEN PdfDocument(formatted[r])
    ELSE TextFile(formatted[r])

\* C8: with two requests in flight, the file body delivered to each caller
\* is the document made from that caller's own formatted analysis.
C8_OwnFileDelivered ==
    \A r \in Requests :
        (pc[r] = "done" /\ response[r].kind = "file") => body[r] = OwnDocument(r)

\* C9: the code simulate_analysis extracts from build_prompt(code, language)
\* is the code, for every code and every language.
C9_ExtractRoundTrip ==
    pc[1] \in {"prompt_built", "simulated"} => ExtractCode(prompt[1]) = req[1].code

DecodesToResult(t) ==
    /\ t.k = "str" /\ t.ok /\ t.v.k = "dict"
    /\ "metadata" \in DOMAIN t.v.d => t.v.d.metadata.k = "dict"

\* C10: the parsed result always has metadata.language. A text that decodes
\* to an object (whose metadata, if any, is an object) keeps every decoded
\* field, keeps a metadata.language it carries, and gets the declared
\* language otherwise; any other text gives the minimal result: the text as
\* summary, the four lists empty, metadata.language the declared language.
C10_ParserContract ==
    \A r \in Requests : Handled(r) =>
        LET t == raw_response[r]
            p == parsed[r]
            lang == Str(req[r].language)
        IN /\ p.k = "dict" /\ "metadata" \in DOMAIN p.d
           /\ p.d.metadata.k = "dict" /\ "language" \in DOMAIN p.d.metadata.d
           /\ response[r].kind = "json" => response[r].raw = p
           /\ IF DecodesToResult(t)
              THEN LET m0 == IF "metadata" \in DOMAIN t.v.d THEN t.v.d.metadata.d
                                                            ELSE EmptyD
                       m1 == p.d.metadata.d
                   IN /\ DOMAIN p.d = DOMAIN t.v.d \cup {"metadata"}
                      /\ \A k \in DOMAIN t.v.d \ {"metadata"} : p.d[k] = t.v.d[k]
                      /\ DOMAIN m1 = DOMAIN m0 \cup {"language"}
                      /\ \A k \in DOMAIN m0 : m1[k] = m0[k]
                      /\ "language" \notin DOMAIN m0 => m1.language = lang
              ELSE /\ p.d.summary = (IF t.k = "str" THEN Str(t.s) ELSE None)
                   /\ \A k \in {"issues", "suggestions", "automatic_fixes", "docs_updates"} :
                        p.d[k] = List(<<>>)
                   /\ p.d.metadata.d.language = lang

C10_Witness ==
    /\ pc[1] = "done" /\ req[1].language = <<"python">>
    /\ raw_response[1].v = Dict([metadata |-> Dict([language |-> Tok("go")])])
    /\ raw_response[1].ok
    /\ parsed[1].d.metadata.d.language = Tok("go")

====
